---- MODULE Spec2Model ----
(***************************************************************************)
(* Model of the native utility library mathlib (mathlib.h / mathlib.c):    *)
(* integer and double arithmetic, C-string operations, Point operations,   *)
(* the callback entry point and the array operations.                      *)
(*                                                                         *)
(* Values.                                                                 *)
(*   int     the 32-bit two's-complement range INT_MIN..INT_MAX.  Signed   *)
(*           overflow is undefined in C: an overflowing +, - or * either   *)
(*           wraps (an ordinary build) or traps (a build with -ftrapv or   *)
(*           a sanitizer); both outcomes are kept.                         *)
(*   double  an IEEE-754 binary format of reduced width: FPrec bits of     *)
(*           significand, exponents 0..FEmax, subnormals, signed zeros,    *)
(*           infinities, one NaN, round-to-nearest-even.  A finite         *)
(*           magnitude is kept as an integer count of the smallest         *)
(*           subnormal; 1.0 is FUnit of them.                              *)
(*   char*   0 is NULL; a non-null pointer is the address of a buffer.     *)
(***************************************************************************)
EXTENDS Integers, Sequences, FiniteSets, TLC

(***************************************************************************)
(* Bounds of the model.                                                    *)
(***************************************************************************)
\* how far from INT_MIN, 0 and INT_MAX the sampled int values reach
Near == 1
\* significand bits of the reduced double format
FPrec == 3
\* largest exponent of the reduced double format
FEmax == 3
\* fraction bits below 1.0 (1.0 is 2^FFrac smallest subnormals)
FFrac == 2
\* capacity in bytes of a caller's text buffer (terminator included)
BufCap == 4
\* number of distinct non-NUL characters
NChars == 3
\* capacity in elements of a caller's int array
ArrCap == 3

(***************************************************************************)
(* int                                                                     *)
(***************************************************************************)
INT_MAX == 2147483647
INT_MIN == (-INT_MAX) - 1

\* the sampled int values: those within Near of INT_MIN, of 0 and of INT_MAX
IntVals == {INT_MIN + k : k \in 0 .. Near} \cup ((-Near) .. (Near + 2))
             \cup {INT_MAX - k : k \in 0 .. Near}

\* a + b lies in INT_MIN..INT_MAX (decided without leaving the range)
AddFits(a, b) ==
    IF b >= 0 THEN a <= INT_MAX - b ELSE a >= INT_MIN - b

\* a + b modulo 2^32, as a signed 32-bit value
AddWrap(a, b) ==
    IF AddFits(a, b) THEN a + b
    ELSE IF b >= 0 THEN (a + INT_MIN) + (b + INT_MIN)
    ELSE ((a - INT_MIN) + b) - INT_MIN

SubFits(a, b) ==
    IF b >= 0 THEN a >= INT_MIN + b ELSE a <= INT_MAX + b

\* a - b modulo 2^32, as a signed 32-bit value
SubWrap(a, b) ==
    IF SubFits(a, b) THEN a - b
    ELSE IF b >= 0 THEN ((a - INT_MIN) - b) - INT_MIN
    ELSE (a + INT_MIN) - (b - INT_MIN)

Returned(v) == [v |-> v, st |-> "returned"]
Trapped == [v |-> 0, st |-> "trapped"]

\* The outcomes of the C expression a + b on int: the sum when it is
\* representable; otherwise undefined behaviour, which wraps or traps.
IntAdd(a, b) ==
    IF AddFits(a, b) THEN {Returned(a + b)}
    ELSE {Returned(AddWrap(a, b)), Trapped}

\* The outcomes of the C expression a - b on int.
IntSub(a, b) ==
    IF SubFits(a, b) THEN {Returned(a - b)}
    ELSE {Returned(SubWrap(a, b)), Trapped}

\* The outcomes of the C expression a * 2 on int.
IntMul2(a) == IntAdd(a, a)

(***************************************************************************)
(* double                                                                  *)
(***************************************************************************)
RECURSIVE Pow2(_)
Pow2(n) == IF n = 0 THEN 1 ELSE 2 * Pow2(n - 1)

Max(S) == CHOOSE m \in S : \A o \in S : o <= m
Min(S) == CHOOSE m \in S : \A o \in S : m <= o

\* 1.0 in units of the smallest subnormal
FUnit == Pow2(FFrac)
\* the finite magnitudes: significand m < 2^FPrec, exponent e in 0..FEmax
FMags == {m * Pow2(e) : m \in 0 .. (Pow2(FPrec) - 1), e \in 0 .. FEmax}
\* the first magnitude past the largest finite one: rounding to it overflows
FOver == Pow2(FPrec - 1) * Pow2(FEmax + 1)
ExtMags == FMags \cup {FOver}

\* the significand of a magnitude of ExtMags
RECURSIVE Mant(_)
Mant(r) == IF r < Pow2(FPrec) THEN r ELSE Mant(r \div 2)

Fin(neg, mag) == [neg |-> neg, mag |-> mag, cls |-> "fin"]
Inf(neg) == [neg |-> neg, mag |-> 0, cls |-> "inf"]
NaN == [neg |-> FALSE, mag |-> 0, cls |-> "nan"]
Zero == Fin(FALSE, 0)
One == Fin(FALSE, FUnit)

\* the largest finite magnitude
FMaxMag == (Pow2(FPrec) - 1) * Pow2(FEmax)
\* the double arguments a caller passes: both zeros, the smallest subnormals,
\* +-1.0, 1.25, 3.0, the largest finite values, both infinities and NaN
DblVals == {Fin(s, m) : s \in BOOLEAN, m \in {0, 1, FUnit, FMaxMag}}
             \cup {Fin(FALSE, 5 * Pow2(FFrac - 2)), Fin(FALSE, 3 * FUnit)}
             \cup {Inf(s) : s \in BOOLEAN} \cup {NaN}

IsNaN(a) == a.cls = "nan"
IsInf(a) == a.cls = "inf"
IsFinite(a) == a.cls = "fin"
IsZero(a) == a.cls = "fin" /\ a.mag = 0

\* Round-to-nearest, ties-to-even, of the exact magnitude n / d (n >= 0,
\* d > 0) to a magnitude of ExtMags; FOver stands for overflow.
RoundMag(n, d) ==
    IF n >= FOver * d THEN FOver
    ELSE LET lo == Max({r \in ExtMags : r * d <= n})
             hi == Min({r \in ExtMags : r * d >= n})
         IN  IF lo = hi THEN lo
             ELSE IF 2 * n < (lo + hi) * d THEN lo
             ELSE IF 2 * n > (lo + hi) * d THEN hi
             ELSE IF Mant(lo) % 2 = 0 THEN lo ELSE hi

\* Round-to-nearest, ties-to-even, of the exact magnitude sqrt(q), q >= 0.
RoundSqrt(q) ==
    IF q >= FOver * FOver THEN FOver
    ELSE LET lo == Max({r \in ExtMags : r * r <= q})
             hi == Min({r \in ExtMags : r * r >= q})
         IN  IF lo = hi THEN lo
             ELSE IF 4 * q < (lo + hi) * (lo + hi) THEN lo
             ELSE IF 4 * q > (lo + hi) * (lo + hi) THEN hi
             ELSE IF Mant(lo) % 2 = 0 THEN lo ELSE hi

Rounded(neg, r) == IF r = FOver THEN Inf(neg) ELSE Fin(neg, r)

FNeg(a) == IF IsNaN(a) THEN NaN ELSE [a EXCEPT !.neg = ~a.neg]

\* the C comparison a == b on double
FEq(a, b) ==
    /\ ~IsNaN(a)
    /\ ~IsNaN(b)
    /\ \/ a = b
       \/ IsZero(a) /\ IsZero(b)

\* the C expression a * b on double
FMul(a, b) ==
    IF IsNaN(a) \/ IsNaN(b) THEN NaN
    ELSE IF (IsInf(a) /\ IsZero(b)) \/ (IsZero(a) /\ IsInf(b)) THEN NaN
    ELSE IF IsInf(a) \/ IsInf(b) THEN Inf(a.neg # b.neg)
    ELSE Rounded(a.neg # b.neg, RoundMag(a.mag * b.mag, FUnit))

\* the C expression a / b on double
FDiv(a, b) ==
    IF IsNaN(a) \/ IsNaN(b) THEN NaN
    ELSE IF (IsInf(a) /\ IsInf(b)) \/ (IsZero(a) /\ IsZero(b)) THEN NaN
    ELSE IF IsInf(a) THEN Inf(a.neg # b.neg)
    ELSE IF IsInf(b) THEN Fin(a.neg # b.neg, 0)
    ELSE IF IsZero(b) THEN Inf(a.neg # b.neg)
    ELSE Rounded(a.neg # b.neg, RoundMag(a.mag * FUnit, b.mag))

\* the signed value of a finite double, in units of the smallest subnormal
Signed(a) == IF a.neg THEN -a.mag ELSE a.mag
Abs(n) == IF n < 0 THEN -n ELSE n

\* the C expression a + b on double
FAdd(a, b) ==
    IF IsNaN(a) \/ IsNaN(b) THEN NaN
    ELSE IF IsInf(a) /\ IsInf(b) THEN (IF a.neg = b.neg THEN a ELSE NaN)
    ELSE IF IsInf(a) THEN a
    ELSE IF IsInf(b) THEN b
    ELSE LET s == Signed(a) + Signed(b)
         IN  IF s = 0 THEN Fin(a.neg /\ b.neg, 0)
             ELSE Rounded(s < 0, RoundMag(Abs(s), 1))

\* the C expression a - b on double
FSub(a, b) == FAdd(a, FNeg(b))

\* sqrt of <math.h>
FSqrt(a) ==
    IF IsNaN(a) THEN NaN
    ELSE IF IsZero(a) THEN a
    ELSE IF a.neg THEN NaN
    ELSE IF IsInf(a) THEN a
    ELSE Rounded(FALSE, RoundSqrt(a.mag * FUnit))

(***************************************************************************)
(* State.  One process calls the library, one call after the other; each   *)
(* action below is one complete call.                                      *)
(***************************************************************************)
VARIABLES
    fn,       \* the library function called last ("none" before any call)
    args,     \* its arguments, in order
    ret,      \* what it returned (0 for a void function or a trapped call)
    status,   \* "idle", "returned", or "trapped" (the process is gone)
    cbCalls,  \* the callback invocations the last call made, in order
    prev,     \* the call before the last, kept while the last call continues
              \* it on the same arguments (NoCall otherwise)
    prev2,    \* the call before prev, kept likewise
    str,      \* the caller's text buffer: BufCap bytes, 0 is the terminator
    arr,      \* the caller's int array: ArrCap elements
    pts,      \* the caller's two Points
    old,      \* str, arr and pts as they were when the last call was made
    writes,   \* how many calls of translate_point and double_array were made
    cmem,     \* threads: the char memory, every thread's text buffer in a row
    imem,     \* threads: the int memory, every thread's array in a row
    dmem,     \* threads: the double memory, every thread's two Points in a row
    th,       \* threads: each thread's call in progress and its locals
    touched,  \* threads: the cells each thread's call has read or written
    crashed   \* threads: a trap has ended the process

seqVars == <<fn, args, ret, status, cbCalls, prev, prev2, str, arr, pts, old,
             writes>>
thVars == <<cmem, imem, dmem, th, touched, crashed>>
vars == <<fn, args, ret, status, cbCalls, prev, prev2, str, arr, pts, old,
          writes, cmem, imem, dmem, th, touched, crashed>>

NULL == 0
NoCall == [fn |-> "none"]
Memory == [str |-> str, arr |-> arr, pts |-> pts]
ThisCall == [fn |-> fn, args |-> args, ret |-> ret, status |-> status,
             old |-> old]

\* The call f(a) continues the last call: it is the second half of one of
\* the compositions subtract(add(a, b), b), reverse_string twice, or
\* sum_array / double_array / sum_array on the same array and size.
Continues(f, a) ==
    /\ status = "returned"
    /\ \/ f = "subtract" /\ fn = "add" /\ a = <<ret, args[2]>>
       \/ f = "reverse_string" /\ fn = "reverse_string" /\ a = args
       \/ f = "double_array" /\ fn = "sum_array" /\ a = args
       \/ f = "sum_array" /\ fn = "double_array" /\ a = args

\* The caller makes the call f(a); it ends as st with result v, having made
\* the callback invocations cbs and left the memory as mem.
Call(f, a, st, v, cbs, mem) ==
    /\ status # "trapped"
    /\ fn' = f
    /\ args' = a
    /\ status' = st
    /\ ret' = v
    /\ cbCalls' = cbs
    /\ prev' = IF Continues(f, a) THEN ThisCall ELSE NoCall
    /\ prev2' = IF Continues(f, a) THEN prev ELSE NoCall
    /\ old' = Memory
    /\ str' = mem.str
    /\ arr' = mem.arr
    /\ pts' = mem.pts
    /\ writes' = IF f \in {"translate_point", "double_array"}
                 THEN writes + 1 ELSE writes
    /\ UNCHANGED thVars

(***************************************************************************)
(* Basic math operations                                                   *)
(***************************************************************************)
\* int add(int a, int b) { return a + b; }
add(a, b) == IntAdd(a, b)

\* int subtract(int a, int b) { return a - b; }
subtract(a, b) == IntSub(a, b)

\* double multiply_double(double a, double b) { return a * b; }
multiply_double(a, b) == FMul(a, b)

\* divide_double without its test of the divisor
divide_double_unguarded(a, b) == FDiv(a, b)

\* double divide_double(double a, double b)
divide_double(a, b) == IF FEq(b, Zero) THEN Zero ELSE FDiv(a, b)

\* const char* get_version()
get_version == "MathLib v1.0.0"

(***************************************************************************)
(* Callback example                                                        *)
(***************************************************************************)
\* the functions of type math_callback a caller passes: the library's own
\* add and subtract
Callbacks == {"add", "subtract"}

\* the outcomes of the indirect call callback(a, b)
Invoke(callback, a, b) ==
    IF callback = "add" THEN add(a, b) ELSE subtract(a, b)

\* apply_operation passing its arguments to the callback in the wrong order
apply_operation_swapped(a, b, callback) ==
    IF callback = "NULL"
    THEN {[v |-> 0, st |-> "returned", calls |-> <<>>]}
    ELSE {[v |-> o.v, st |-> o.st,
           calls |-> <<[a |-> b, b |-> a, cb |-> callback, out |-> o]>>] :
             o \in Invoke(callback, b, a)}

\* int apply_operation(int a, int b, math_callback callback): the outcomes,
\* each with the invocations made
apply_operation(a, b, callback) ==
    IF callback = "NULL"
    THEN {[v |-> 0, st |-> "returned", calls |-> <<>>]}
    ELSE {[v |-> o.v, st |-> o.st,
           calls |-> <<[a |-> a, b |-> b, cb |-> callback, out |-> o]>>] :
             o \in Invoke(callback, a, b)}

(***************************************************************************)
(* String operations.  buf is the content of the buffer a non-null str     *)
(* points to.                                                              *)
(***************************************************************************)
\* strlen of <string.h>: the number of bytes before the first terminator
strlen(buf) == Min({i \in 1 .. Len(buf) : buf[i] = 0}) - 1

\* int string_length(const char* str)
string_length(p, buf) == IF p = NULL THEN 0 ELSE strlen(buf)

\* the loop running through the middle: i <= len / 2
RECURSIVE reverse_loop_through_middle(_, _, _)
reverse_loop_through_middle(buf, len, i) ==
    IF i <= len \div 2 /\ i < len
    THEN LET temp == buf[i + 1]
             s1 == [buf EXCEPT ![i + 1] = buf[(len - 1 - i) + 1]]
             s2 == [s1 EXCEPT ![(len - 1 - i) + 1] = temp]
         IN  reverse_loop_through_middle(s2, len, i + 1)
    ELSE buf

\* the loop swapping str[i] with str[len - i], the terminator included
RECURSIVE reverse_loop_from_terminator(_, _, _)
reverse_loop_from_terminator(buf, len, i) ==
    IF i < len \div 2
    THEN LET temp == buf[i + 1]
             s1 == [buf EXCEPT ![i + 1] = buf[(len - i) + 1]]
             s2 == [s1 EXCEPT ![(len - i) + 1] = temp]
         IN  reverse_loop_from_terminator(s2, len, i + 1)
    ELSE buf

\* the for loop of reverse_string from i on; byte i of the C buffer is
\* buf[i + 1]
RECURSIVE reverse_loop(_, _, _)
reverse_loop(buf, len, i) ==
    IF i < len \div 2
    THEN LET temp == buf[i + 1]
             s1 == [buf EXCEPT ![i + 1] = buf[(len - 1 - i) + 1]]
             s2 == [s1 EXCEPT ![(len - 1 - i) + 1] = temp]
         IN  reverse_loop(s2, len, i + 1)
    ELSE buf

\* void reverse_string(char* str): the content of the buffer afterwards
reverse_string(p, buf) ==
    IF p = NULL \/ buf[1] = 0 THEN buf
    ELSE reverse_loop(buf, strlen(buf), 0)

(***************************************************************************)
(* Struct operations.  A non-null Point* is 1 or 2, the index of the Point *)
(* in ps it points to.                                                     *)
(***************************************************************************)
\* distance returning early only when both references are absent; what it
\* reads through the NULL one is no coordinate, and the result no distance
distance_both_null(p1, p2, ps) ==
    IF p1 = NULL /\ p2 = NULL THEN Zero
    ELSE IF p1 = NULL \/ p2 = NULL THEN NaN
    ELSE LET dx == FSub(ps[p2].x, ps[p1].x)
             dy == FSub(ps[p2].y, ps[p1].y)
         IN  FSqrt(FAdd(FMul(dx, dx), FMul(dy, dy)))

\* double distance(Point* p1, Point* p2)
distance(p1, p2, ps) ==
    IF p1 = NULL \/ p2 = NULL THEN Zero
    ELSE LET dx == FSub(ps[p2].x, ps[p1].x)
             dy == FSub(ps[p2].y, ps[p1].y)
         IN  FSqrt(FAdd(FMul(dx, dx), FMul(dy, dy)))

\* void translate_point(Point* p, double dx, double dy): the Points
\* afterwards
translate_point(p, dx, dy, ps) ==
    IF p = NULL THEN ps
    ELSE [ps EXCEPT ![p] = [x |-> FAdd(ps[p].x, dx), y |-> FAdd(ps[p].y, dy)]]

(***************************************************************************)
(* Array operations.  a is the content of the array a non-null arr points  *)
(* to; element i of the C array is a[i + 1].                               *)
(***************************************************************************)
\* the for loop of sum_array from i on: its outcomes
RECURSIVE sum_loop(_, _, _, _)
sum_loop(a, size, i, sum) ==
    IF i < size
    THEN UNION {IF o.st = "trapped" THEN {Trapped}
                ELSE sum_loop(a, size, i + 1, o.v) : o \in IntAdd(sum, a[i + 1])}
    ELSE {Returned(sum)}

\* int sum_array(const int* arr, int size): its outcomes
sum_array(p, size, a) ==
    IF p = NULL \/ size <= 0 THEN {Returned(0)}
    ELSE sum_loop(a, size, 0, 0)

\* the for loop of double_array from i on: its outcomes, each with the
\* content of the array it leaves
RECURSIVE double_loop(_, _, _)
double_loop(a, size, i) ==
    IF i < size
    THEN UNION {IF o.st = "trapped" THEN {[st |-> "trapped", arr |-> a]}
                ELSE double_loop([a EXCEPT ![i + 1] = o.v], size, i + 1) :
                  o \in IntMul2(a[i + 1])}
    ELSE {[st |-> "returned", arr |-> a]}

\* void double_array(int* arr, int size): its outcomes
double_array(p, size, a) ==
    IF p = NULL \/ size <= 0 THEN {[st |-> "returned", arr |-> a]}
    ELSE double_loop(a, size, 0)

(***************************************************************************)
(* The caller: its memory and the calls it makes                           *)
(***************************************************************************)
Bytes == 0 .. NChars
\* the text buffers that hold a NUL-terminated string
Buffers == {b \in [1 .. BufCap -> Bytes] : \E i \in 1 .. BufCap : b[i] = 0}
\* the buffer holding the two-character string "ab"
TextAb == [i \in 1 .. BufCap |-> IF i <= 2 THEN i ELSE 0]
\* the address of the text buffer, of the array
StrPtr == 1
ArrPtr == 1
Arrays == [1 .. ArrCap -> IntVals]
\* the sizes a caller passes with an array: none beyond its capacity
Sizes == {INT_MIN, -1} \cup (0 .. ArrCap)
Dbl(n) == Fin(n < 0, Abs(n) * FUnit)
Pt(x, y) == [x |-> Dbl(x), y |-> Dbl(y)]
Points1 == {Pt(0, 0), Pt(1, 1), Pt(-1, 3), Pt(3, 0)}
Points2 == {Pt(3, 4), Pt(0, 0)}
\* the offsets (dx, dy) a caller passes to translate_point
Offsets == {<<Dbl(2), Dbl(3)>>, <<Zero, Zero>>, <<Dbl(-1), Dbl(1)>>}
\* how many calls of translate_point and double_array the caller makes
MaxWrites == 2

\* the first argument a caller passes to subtract: a sampled value, or the
\* sum add has just returned
IntArgs == IntVals \cup (IF fn = "add" /\ status = "returned" THEN {ret}
                         ELSE {})

Call_add ==
    \E a \in IntVals, b \in IntVals : \E o \in add(a, b) :
        Call("add", <<a, b>>, o.st, o.v, <<>>, Memory)

Call_subtract ==
    \E a \in IntArgs, b \in IntVals : \E o \in subtract(a, b) :
        Call("subtract", <<a, b>>, o.st, o.v, <<>>, Memory)

Call_multiply_double ==
    \E a \in DblVals, b \in DblVals :
        Call("multiply_double", <<a, b>>, "returned", multiply_double(a, b),
             <<>>, Memory)

Call_divide_double ==
    \E a \in DblVals, b \in DblVals :
        Call("divide_double", <<a, b>>, "returned", divide_double(a, b),
             <<>>, Memory)

Call_get_version ==
    Call("get_version", <<>>, "returned", get_version, <<>>, Memory)

Call_apply_operation ==
    \E a \in IntVals, b \in IntVals, cb \in Callbacks \cup {"NULL"} :
        \E o \in apply_operation(a, b, cb) :
            Call("apply_operation", <<a, b, cb>>, o.st, o.v, o.calls, Memory)

Call_string_length ==
    \E p \in {NULL, StrPtr} :
        Call("string_length", <<p>>, "returned", string_length(p, str), <<>>,
             Memory)

Call_reverse_string ==
    \E p \in {NULL, StrPtr} :
        Call("reverse_string", <<p>>, "returned", 0, <<>>,
             [Memory EXCEPT !.str = reverse_string(p, str)])

Call_distance ==
    \E p1 \in {NULL, 1, 2}, p2 \in {NULL, 1, 2} :
        Call("distance", <<p1, p2>>, "returned", distance(p1, p2, pts), <<>>,
             Memory)

Call_translate_point ==
    /\ writes < MaxWrites
    /\ \E p \in {NULL, 1, 2}, d \in Offsets :
        Call("translate_point", <<p, d[1], d[2]>>, "returned", 0, <<>>,
             [Memory EXCEPT !.pts = translate_point(p, d[1], d[2], pts)])

Call_sum_array ==
    \E p \in {NULL, ArrPtr}, size \in Sizes : \E o \in sum_array(p, size, arr) :
        Call("sum_array", <<p, size>>, o.st, o.v, <<>>, Memory)

Call_double_array ==
    /\ writes < MaxWrites
    /\ \E p \in {NULL, ArrPtr}, size \in Sizes :
        \E o \in double_array(p, size, arr) :
            Call("double_array", <<p, size>>, o.st, 0, <<>>,
                 [Memory EXCEPT !.arr = o.arr])

IdleCall ==
    /\ fn = "none"
    /\ args = <<>>
    /\ ret = 0
    /\ status = "idle"
    /\ cbCalls = <<>>
    /\ prev = NoCall
    /\ prev2 = NoCall
    /\ writes = 0

\* no threads
NoThreads ==
    /\ cmem = <<>>
    /\ imem = <<>>
    /\ dmem = <<>>
    /\ th = <<>>
    /\ touched = <<>>
    /\ crashed = FALSE

InitScalar ==
    /\ IdleCall
    /\ NoThreads
    /\ str = [i \in 1 .. BufCap |-> 0]
    /\ arr = [i \in 1 .. ArrCap |-> 0]
    /\ pts = [i \in 1 .. 2 |-> Pt(0, 0)]
    /\ old = Memory

NextScalar ==
    \/ Call_add
    \/ Call_subtract
    \/ Call_multiply_double
    \/ Call_divide_double
    \/ Call_get_version
    \/ Call_apply_operation

\* the arithmetic entry points, the version string and the callback
SpecScalar == InitScalar /\ [][NextScalar]_vars
InitText ==
    /\ IdleCall
    /\ NoThreads
    /\ str \in Buffers
    /\ arr = [i \in 1 .. ArrCap |-> 0]
    /\ pts = [i \in 1 .. 2 |-> Pt(0, 0)]
    /\ old = Memory

NextText ==
    \/ Call_string_length
    \/ Call_reverse_string

\* the string operations on every text buffer
SpecText == InitText /\ [][NextText]_vars

InitRef ==
    /\ IdleCall
    /\ NoThreads
    /\ str = TextAb
    /\ arr = [i \in 1 .. ArrCap |-> 0]
    /\ \E q1 \in Points1, q2 \in Points2 : pts = <<q1, q2>>
    /\ old = Memory

NextRef ==
    \/ Call_string_length
    \/ Call_reverse_string
    \/ Call_distance
    \/ Call_translate_point

\* the operations that take a reference to a text or to a Point
SpecRef == InitRef /\ [][NextRef]_vars

InitArray ==
    /\ IdleCall
    /\ NoThreads
    /\ str = [i \in 1 .. BufCap |-> 0]
    /\ arr \in Arrays
    /\ pts = [i \in 1 .. 2 |-> Pt(0, 0)]
    /\ old = Memory

NextArray ==
    \/ Call_sum_array
    \/ Call_double_array

\* the array operations on every array
SpecArray == InitArray /\ [][NextArray]_vars

(***************************************************************************)
(* Threads.  Two threads of one process call the library at the same time, *)
(* one call each, each on its own text buffer, array and Points.  The      *)
(* buffers of a kind lie side by side in memory, followed by one cell that *)
(* belongs to neither.  A step is one statement of a function; the program *)
(* counter of a thread is the source line it is about to execute.          *)
(***************************************************************************)
Threads == {1, 2}

\* the addresses of thread t's text buffer, array and k-th Point
StrBase(t) == (t - 1) * BufCap + 1
ArrBase(t) == (t - 1) * ArrCap + 1
PtBase(t, k) == (t - 1) * 4 + (k - 1) * 2 + 1

\* the cells that belong to thread t
OwnCells(t) ==
    {<<"char", StrBase(t) + i>> : i \in 0 .. (BufCap - 1)}
      \cup {<<"int", ArrBase(t) + i>> : i \in 0 .. (ArrCap - 1)}
      \cup {<<"double", PtBase(t, 1) + i>> : i \in 0 .. 3}

\* the content of thread t's text buffer, array and Points
StrOf(t) == [i \in 1 .. BufCap |-> cmem[StrBase(t) + i - 1]]
ArrOf(t) == [i \in 1 .. ArrCap |-> imem[ArrBase(t) + i - 1]]
PtsOf(t) == [k \in 1 .. 2 |->
               [x |-> dmem[PtBase(t, k)], y |-> dmem[PtBase(t, k) + 1]]]
MemOf(t) == [str |-> StrOf(t), arr |-> ArrOf(t), pts |-> PtsOf(t)]

\* the index (1 or 2) of the Point of thread t that p points to
PtIdx(t, p) == IF p = NULL THEN NULL ELSE ((p - PtBase(t, 1)) \div 2) + 1

\* the calls thread t makes: every function on its own buffers or on NULL
ThreadCalls(t) ==
    {[args |-> <<p>>, op |-> "string_length"] : p \in {NULL, StrBase(t)}}
      \cup {[args |-> <<p>>, op |-> "reverse_string"] :
              p \in {NULL, StrBase(t)}}
      \cup {[args |-> a, op |-> "distance"] :
              a \in {<<PtBase(t, 1), PtBase(t, 2)>>, <<NULL, PtBase(t, 2)>>,
                     <<PtBase(t, 2), PtBase(t, 2)>>}}
      \cup {[args |-> <<p, Dbl(2), Dbl(3)>>, op |-> "translate_point"] :
              p \in {NULL, PtBase(t, 1)}}
      \cup {[args |-> <<p, n>>, op |-> "sum_array"] :
              p \in {NULL, ArrBase(t)}, n \in {-1, 0, ArrCap - 1, ArrCap}}
      \cup {[args |-> <<p, n>>, op |-> "double_array"] :
              p \in {NULL, ArrBase(t)}, n \in {-1, 0, ArrCap - 1, ArrCap}}

\* a thread that has not called yet
Idle == [args |-> <<>>, ret |-> 0, i |-> 0, len |-> 0, temp |-> 0,
         dx |-> Zero, dy |-> Zero, sum |-> 0, op |-> "none", pc |-> "idle",
         ov |-> FALSE, snap |-> <<>>]

\* thread t's call is in progress
Running(t) == th[t].pc \notin {"idle", "done"}

\* thread t takes a step to the state L, reading or writing the cells cells
Step(t, L, cells) ==
    /\ th' = [th EXCEPT ![t] =
                [L EXCEPT !.ov = @ \/ \E u \in Threads \ {t} : Running(u)]]
    /\ touched' = [touched EXCEPT ![t] = @ \cup cells]
    /\ UNCHANGED seqVars

\* thread t's call returns v
Return(t, v, cells) ==
    Step(t, [th[t] EXCEPT !.pc = "done", !.ret = v, !.i = 0, !.len = 0,
                          !.temp = 0, !.sum = 0, !.dx = Zero, !.dy = Zero],
         cells)

\* the test letting the loop run once more: i <= n
ForTestInclusive(i, n) == i <= n

\* the continuation test i < n of the for loops
ForTest(i, n) == i < n

\* thread t calls one of the functions
ThreadCall(t) ==
    /\ ~crashed
    /\ th[t].pc = "idle"
    /\ \E c \in ThreadCalls(t) :
        Step(t, [th[t] EXCEPT !.pc = "entry", !.op = c.op, !.args = c.args,
                              !.snap = MemOf(t)], {})
    /\ UNCHANGED <<cmem, imem, dmem, crashed>>

At(t, op, pc) == ~crashed /\ th[t].op = op /\ th[t].pc = pc

\* string_length: if (str == NULL) return 0;
string_length_L32(t) ==
    /\ At(t, "string_length", "entry")
    /\ IF th[t].args[1] = NULL THEN Return(t, 0, {})
       ELSE Step(t, [th[t] EXCEPT !.pc = "L35", !.len = 0], {})
    /\ UNCHANGED <<cmem, imem, dmem, crashed>>

\* string_length: return (int)strlen(str); one byte of the scan
string_length_L35(t) ==
    /\ At(t, "string_length", "L35")
    /\ LET a == th[t].args[1] + th[t].len
       IN  IF cmem[a] = 0 THEN Return(t, th[t].len, {<<"char", a>>})
           ELSE Step(t, [th[t] EXCEPT !.len = @ + 1], {<<"char", a>>})
    /\ UNCHANGED <<cmem, imem, dmem, crashed>>

\* reverse_string: if (str == NULL || *str == '\0') return;
reverse_string_L39(t) ==
    /\ At(t, "reverse_string", "entry")
    /\ LET p == th[t].args[1]
       IN  IF p = NULL THEN Return(t, 0, {})
           ELSE IF cmem[p] = 0 THEN Return(t, 0, {<<"char", p>>})
           ELSE Step(t, [th[t] EXCEPT !.pc = "L43", !.len = 0],
                     {<<"char", p>>})
    /\ UNCHANGED <<cmem, imem, dmem, crashed>>

\* reverse_string: int len = strlen(str); one byte of the scan
reverse_string_L43(t) ==
    /\ At(t, "reverse_string", "L43")
    /\ LET a == th[t].args[1] + th[t].len
       IN  IF cmem[a] = 0
           THEN Step(t, [th[t] EXCEPT !.pc = "L44", !.i = 0], {<<"char", a>>})
           ELSE Step(t, [th[t] EXCEPT !.len = @ + 1], {<<"char", a>>})
    /\ UNCHANGED <<cmem, imem, dmem, crashed>>

\* reverse_string: for (int i = 0; i < len / 2; i++)
reverse_string_L44(t) ==
    /\ At(t, "reverse_string", "L44")
    /\ IF ForTest(th[t].i, th[t].len \div 2)
       THEN Step(t, [th[t] EXCEPT !.pc = "L45"], {})
       ELSE Return(t, 0, {})
    /\ UNCHANGED <<cmem, imem, dmem, crashed>>

\* reverse_string: char temp = str[i];
reverse_string_L45(t) ==
    /\ At(t, "reverse_string", "L45")
    /\ LET a == th[t].args[1] + th[t].i
       IN  Step(t, [th[t] EXCEPT !.pc = "L46", !.temp = cmem[a]],
                {<<"char", a>>})
    /\ UNCHANGED <<cmem, imem, dmem, crashed>>

\* reverse_string: str[i] = str[len - 1 - i];
reverse_string_L46(t) ==
    /\ At(t, "reverse_string", "L46")
    /\ LET a == th[t].args[1] + th[t].i
           b == th[t].args[1] + (th[t].len - 1 - th[t].i)
       IN  /\ cmem' = [cmem EXCEPT ![a] = cmem[b]]
           /\ Step(t, [th[t] EXCEPT !.pc = "L47"],
                   {<<"char", a>>, <<"char", b>>})
    /\ UNCHANGED <<imem, dmem, crashed>>

\* reverse_string: str[len - 1 - i] = temp; and i++
reverse_string_L47(t) ==
    /\ At(t, "reverse_string", "L47")
    /\ LET b == th[t].args[1] + (th[t].len - 1 - th[t].i)
       IN  /\ cmem' = [cmem EXCEPT ![b] = th[t].temp]
           /\ Step(t, [th[t] EXCEPT !.pc = "L44", !.i = @ + 1, !.temp = 0],
                   {<<"char", b>>})
    /\ UNCHANGED <<imem, dmem, crashed>>

\* distance: if (p1 == NULL || p2 == NULL) return 0.0;
distance_L53(t) ==
    /\ At(t, "distance", "entry")
    /\ IF th[t].args[1] = NULL \/ th[t].args[2] = NULL
       THEN Return(t, Zero, {})
       ELSE Step(t, [th[t] EXCEPT !.pc = "L57"], {})
    /\ UNCHANGED <<cmem, imem, dmem, crashed>>

\* distance: double dx = p2->x - p1->x;
distance_L57(t) ==
    /\ At(t, "distance", "L57")
    /\ LET p1 == th[t].args[1]
           p2 == th[t].args[2]
       IN  Step(t, [th[t] EXCEPT !.pc = "L58",
                                 !.dx = FSub(dmem[p2], dmem[p1])],
                {<<"double", p1>>, <<"double", p2>>})
    /\ UNCHANGED <<cmem, imem, dmem, crashed>>

\* distance: double dy = p2->y - p1->y;
distance_L58(t) ==
    /\ At(t, "distance", "L58")
    /\ LET p1 == th[t].args[1] + 1
           p2 == th[t].args[2] + 1
       IN  Step(t, [th[t] EXCEPT !.pc = "L59",
                                 !.dy = FSub(dmem[p2], dmem[p1])],
                {<<"double", p1>>, <<"double", p2>>})
    /\ UNCHANGED <<cmem, imem, dmem, crashed>>

\* distance: return sqrt(dx * dx + dy * dy);
distance_L59(t) ==
    /\ At(t, "distance", "L59")
    /\ LET dx == th[t].dx
           dy == th[t].dy
       IN  Return(t, FSqrt(FAdd(FMul(dx, dx), FMul(dy, dy))), {})
    /\ UNCHANGED <<cmem, imem, dmem, crashed>>

\* translate_point: if (p == NULL) return;
translate_point_L63(t) ==
    /\ At(t, "translate_point", "entry")
    /\ IF th[t].args[1] = NULL THEN Return(t, 0, {})
       ELSE Step(t, [th[t] EXCEPT !.pc = "L67"], {})
    /\ UNCHANGED <<cmem, imem, dmem, crashed>>

\* translate_point: p->x += dx;
translate_point_L67(t) ==
    /\ At(t, "translate_point", "L67")
    /\ LET p == th[t].args[1]
       IN  /\ dmem' = [dmem EXCEPT ![p] = FAdd(dmem[p], th[t].args[2])]
           /\ Step(t, [th[t] EXCEPT !.pc = "L68"], {<<"double", p>>})
    /\ UNCHANGED <<cmem, imem, crashed>>

\* translate_point: p->y += dy;
translate_point_L68(t) ==
    /\ At(t, "translate_point", "L68")
    /\ LET p == th[t].args[1] + 1
       IN  /\ dmem' = [dmem EXCEPT ![p] = FAdd(dmem[p], th[t].args[3])]
           /\ Return(t, 0, {<<"double", p>>})
    /\ UNCHANGED <<cmem, imem, crashed>>

\* sum_array: if (arr == NULL || size <= 0) return 0; int sum = 0;
sum_array_L81(t) ==
    /\ At(t, "sum_array", "entry")
    /\ IF th[t].args[1] = NULL \/ th[t].args[2] <= 0 THEN Return(t, 0, {})
       ELSE Step(t, [th[t] EXCEPT !.pc = "L86", !.sum = 0, !.i = 0], {})
    /\ UNCHANGED <<cmem, imem, dmem, crashed>>

\* sum_array: for (int i = 0; i < size; i++) ... return sum;
sum_array_L86(t) ==
    /\ At(t, "sum_array", "L86")
    /\ IF ForTest(th[t].i, th[t].args[2])
       THEN Step(t, [th[t] EXCEPT !.pc = "L87"], {})
       ELSE Return(t, th[t].sum, {})
    /\ UNCHANGED <<cmem, imem, dmem, crashed>>

\* sum_array: sum += arr[i]; and i++
sum_array_L87(t) ==
    /\ At(t, "sum_array", "L87")
    /\ LET a == th[t].args[1] + th[t].i
       IN  \E o \in IntAdd(th[t].sum, imem[a]) :
               /\ crashed' = (o.st = "trapped")
               /\ Step(t, [th[t] EXCEPT !.pc = "L86", !.sum = o.v, !.i = @ + 1],
                       {<<"int", a>>})
    /\ UNCHANGED <<cmem, imem, dmem>>

\* double_array: if (arr == NULL || size <= 0) return;
double_array_L93(t) ==
    /\ At(t, "double_array", "entry")
    /\ IF th[t].args[1] = NULL \/ th[t].args[2] <= 0 THEN Return(t, 0, {})
       ELSE Step(t, [th[t] EXCEPT !.pc = "L97", !.i = 0], {})
    /\ UNCHANGED <<cmem, imem, dmem, crashed>>

\* double_array: for (int i = 0; i < size; i++)
double_array_L97(t) ==
    /\ At(t, "double_array", "L97")
    /\ IF ForTest(th[t].i, th[t].args[2])
       THEN Step(t, [th[t] EXCEPT !.pc = "L98"], {})
       ELSE Return(t, 0, {})
    /\ UNCHANGED <<cmem, imem, dmem, crashed>>

\* double_array: arr[i] *= 2; and i++
double_array_L98(t) ==
    /\ At(t, "double_array", "L98")
    /\ LET a == th[t].args[1] + th[t].i
       IN  \E o \in IntMul2(imem[a]) :
               /\ crashed' = (o.st = "trapped")
               /\ imem' = IF o.st = "trapped" THEN imem
                          ELSE [imem EXCEPT ![a] = o.v]
               /\ Step(t, [th[t] EXCEPT !.pc = "L97", !.i = @ + 1],
                       {<<"int", a>>})
    /\ UNCHANGED <<cmem, dmem>>

\* the text, array and Points thread t starts with
ThreadText(t) ==
    [i \in 1 .. BufCap |->
        IF t = 1 THEN (IF i < BufCap THEN ((i - 1) % NChars) + 1 ELSE 0)
        ELSE (IF i = 3 THEN 0 ELSE ((i + 1) % 2) + 1)]
ThreadArray(t) ==
    [i \in 1 .. ArrCap |->
        IF t = 1 THEN i ELSE IF i = ArrCap THEN INT_MAX ELSE -i]
ThreadPoints(t) == IF t = 1 THEN <<Pt(1, 1), Pt(3, 4)>>
                   ELSE <<Pt(0, 0), Pt(3, 0)>>

InitThreads ==
    /\ IdleCall
    /\ str = [i \in 1 .. BufCap |-> 0]
    /\ arr = [i \in 1 .. ArrCap |-> 0]
    /\ pts = [i \in 1 .. 2 |-> Pt(0, 0)]
    /\ old = Memory
    /\ cmem = [a \in 1 .. (2 * BufCap + 1) |->
                 IF a > 2 * BufCap THEN 0
                 ELSE ThreadText(((a - 1) \div BufCap) + 1)[((a - 1) % BufCap) + 1]]
    /\ imem = [a \in 1 .. (2 * ArrCap + 1) |->
                 IF a > 2 * ArrCap THEN 0
                 ELSE ThreadArray(((a - 1) \div ArrCap) + 1)[((a - 1) % ArrCap) + 1]]
    /\ dmem = [a \in 1 .. 9 |->
                 IF a > 8 THEN Zero
                 ELSE LET q == ThreadPoints(((a - 1) \div 4) + 1)[(((a - 1) % 4) \div 2) + 1]
                      IN  IF a % 2 = 1 THEN q.x ELSE q.y]
    /\ th = [t \in Threads |-> [Idle EXCEPT !.snap = MemOf(t)]]
    /\ touched = [t \in Threads |-> {}]
    /\ crashed = FALSE

NextThreads ==
    \/ \E t \in Threads : ThreadCall(t)
    \/ \E t \in Threads : string_length_L32(t)
    \/ \E t \in Threads : string_length_L35(t)
    \/ \E t \in Threads : reverse_string_L39(t)
    \/ \E t \in Threads : reverse_string_L43(t)
    \/ \E t \in Threads : reverse_string_L44(t)
    \/ \E t \in Threads : reverse_string_L45(t)
    \/ \E t \in Threads : reverse_string_L46(t)
    \/ \E t \in Threads : reverse_string_L47(t)
    \/ \E t \in Threads : distance_L53(t)
    \/ \E t \in Threads : distance_L57(t)
    \/ \E t \in Threads : distance_L58(t)
    \/ \E t \in Threads : distance_L59(t)
    \/ \E t \in Threads : translate_point_L63(t)
    \/ \E t \in Threads : translate_point_L67(t)
    \/ \E t \in Threads : translate_point_L68(t)
    \/ \E t \in Threads : sum_array_L81(t)
    \/ \E t \in Threads : sum_array_L86(t)
    \/ \E t \in Threads : sum_array_L87(t)
    \/ \E t \in Threads : double_array_L93(t)
    \/ \E t \in Threads : double_array_L97(t)
    \/ \E t \in Threads : double_array_L98(t)

\* two threads calling the library at the same time
SpecThreads == InitThreads /\ [][NextThreads]_vars

(***************************************************************************)
(* Properties                                                              *)
(***************************************************************************)

\* C1: apply_operation(a, b, callback) with a callback invokes it exactly
\* once, within the call, with the arguments (a, b) in that order, and
\* returns the callback's result unchanged (it ends as the callback ends);
\* with a NULL callback it invokes nothing and returns 0.
C1_ApplyOperationInvokesOnce ==
    fn = "apply_operation" =>
        LET a == args[1]
            b == args[2]
            cb == args[3]
        IN  IF cb = "NULL"
            THEN cbCalls = <<>> /\ status = "returned" /\ ret = 0
            ELSE /\ Len(cbCalls) = 1
                 /\ cbCalls[1].cb = cb
                 /\ cbCalls[1].a = a
                 /\ cbCalls[1].b = b
                 /\ status = cbCalls[1].out.st
                 /\ status = "returned" =>
                        /\ ret = cbCalls[1].out.v
                        /\ cb = "add" => ret = AddWrap(a, b)
                        /\ cb = "subtract" => ret = SubWrap(a, b)

\* apply_operation(2, 3, add) has returned 5 after one invocation, and
\* apply_operation(2, -1, subtract) is distinguishable from the swapped call
C1_Witness ==
    /\ fn = "apply_operation"
    /\ args = <<2, 3, "add">>
    /\ Len(cbCalls) = 1
    /\ status = "returned"
    /\ ret = 5

\* C3: divide_double(a, b) returns exactly +0.0 whenever b == 0.0 (either
\* zero), for every finite a; for every other b it returns the IEEE quotient
\* a / b, which is the exact quotient whenever that is representable.
C3_DivideByZeroIsZero ==
    fn = "divide_double" =>
        LET a == args[1]
            b == args[2]
        IN  /\ status = "returned"
            /\ IsZero(b) /\ IsFinite(a) => ret = Zero
            /\ ~IsZero(b) => ret = FDiv(a, b)
            /\ IsFinite(a) /\ IsFinite(b) /\ ~IsZero(b) =>
                   \A r \in FMags :
                       r * b.mag = a.mag * FUnit =>
                           ret = Fin(a.neg # b.neg, r)

\* divide_double(1.0, -0.0) has returned +0.0
C3_Witness ==
    /\ fn = "divide_double"
    /\ args = <<One, Fin(TRUE, 0)>>
    /\ ret = Zero

\* C4: add and subtract wrap as 32-bit two's-complement integers, so that
\* subtract(add(a, b), b) = a for all a and b, overflowing sums included.
C4_AddSubtractWrap ==
    /\ fn = "add" =>
           status = "returned" /\ ret = AddWrap(args[1], args[2])
    /\ fn = "subtract" =>
           status = "returned" /\ ret = SubWrap(args[1], args[2])
    /\ fn = "subtract" /\ prev.fn = "add" =>
           status = "returned" /\ ret = prev.args[1]
\* C2: reverse_string is an involution.  After one call on a string of
\* length len the buffer holds its characters in reverse order
\* (new[i] = old[len - 1 - i] for 0 <= i < len), and after a second call
\* the buffer holds the original content again.
C2_ReverseInvolution ==
    fn = "reverse_string" /\ args[1] # NULL =>
        LET len == strlen(old.str)
        IN  /\ status = "returned"
            /\ \A i \in 0 .. (len - 1) : str[i + 1] = old.str[(len - 1 - i) + 1]
            /\ prev.fn = "reverse_string" => str = prev.old.str

\* a string of three characters, not a palindrome, has been reversed twice;
\* so has one of two characters
C2_Witness ==
    /\ fn = "reverse_string"
    /\ prev.fn = "reverse_string"
    /\ args[1] # NULL
    /\ strlen(str) = 3
    /\ str[1] # str[3]
    /\ old.str # str

\* C9: reverse_string never resizes or extends the text: it changes no byte
\* at index len or beyond, the terminator stays at index len, the length is
\* the same afterwards, and the buffer holds the same characters as often.
C9_ReverseKeepsExtent ==
    fn = "reverse_string" =>
        LET len == strlen(old.str)
        IN  /\ Len(str) = Len(old.str)
            /\ \A i \in 1 .. Len(str) : i > len => str[i] = old.str[i]
            /\ str[len + 1] = 0
            /\ strlen(str) = len
            /\ \A c \in Bytes :
                   Cardinality({i \in 1 .. len : str[i] = c})
                       = Cardinality({i \in 1 .. len : old.str[i] = c})

\* a two-character string followed by a terminator and a stale byte has been
\* reversed
C9_Witness ==
    /\ fn = "reverse_string"
    /\ args[1] # NULL
    /\ strlen(old.str) = 2
    /\ old.str[BufCap] # 0
    /\ str # old.str

\* C7: an absent reference yields a silent sentinel and no failure:
\* string_length(NULL) returns 0, distance returns +0.0 if either point is
\* absent, and reverse_string(NULL) and translate_point(NULL, dx, dy) return
\* leaving the caller's memory as it was.
C7_NullIsSentinel ==
    /\ fn = "string_length" /\ args[1] = NULL =>
           status = "returned" /\ ret = 0 /\ Memory = old
    /\ fn = "distance" /\ (args[1] = NULL \/ args[2] = NULL) =>
           status = "returned" /\ ret = Zero /\ Memory = old
    /\ fn = "reverse_string" /\ args[1] = NULL =>
           status = "returned" /\ Memory = old
    /\ fn = "translate_point" /\ args[1] = NULL =>
           status = "returned" /\ Memory = old

\* distance was called with one absent point and one valid point away from
\* the origin, and returned +0.0
C7_Witness ==
    /\ fn = "distance"
    /\ args = <<NULL, 2>>
    /\ pts[2] = Pt(3, 4)
    /\ ret = Zero
\* the sum of a[1..n] modulo 2^32, as a signed 32-bit value
RECURSIVE WrapSum(_, _)
WrapSum(a, n) == IF n = 0 THEN 0 ELSE AddWrap(WrapSum(a, n - 1), a[n])

\* C5: sum_array(arr, size) returns the sum of exactly arr[0..size-1] when
\* arr is present and size > 0, returns 0 when arr is absent or size <= 0,
\* and leaves the array unmodified in every case.
C5_SumArray ==
    fn = "sum_array" =>
        /\ status = "returned"
        /\ Memory = old
        /\ ret = IF args[1] = NULL \/ args[2] <= 0 THEN 0
                 ELSE WrapSum(old.arr, args[2])

\* C6: double_array(arr, size) with arr present and size > 0 replaces every
\* arr[i], 0 <= i < size, by 2 * arr[i] and leaves the elements from index
\* size on unchanged; with arr absent or size <= 0 it changes nothing.
C6_DoubleArray ==
    fn = "double_array" =>
        /\ status = "returned"
        /\ str = old.str
        /\ pts = old.pts
        /\ IF args[1] = NULL \/ args[2] <= 0 THEN arr = old.arr
           ELSE \A i \in 0 .. (ArrCap - 1) :
                    arr[i + 1] = IF i < args[2]
                                 THEN AddWrap(old.arr[i + 1], old.arr[i + 1])
                                 ELSE old.arr[i + 1]

\* C10: for a present array and size > 0, double_array(arr, size) followed by
\* sum_array(arr, size) returns 2 * s modulo 2^32, where s is what
\* sum_array(arr, size) returned before the doubling, overflowing elements
\* and sums included.
C10_DoubleThenSum ==
    /\ fn = "double_array" /\ prev.fn = "sum_array"
         /\ args[1] # NULL /\ args[2] > 0 =>
           status = "returned"
    /\ fn = "sum_array" /\ prev.fn = "double_array" /\ prev2.fn = "sum_array"
         /\ args[1] # NULL /\ args[2] > 0 =>
           status = "returned" /\ ret = AddWrap(prev2.ret, prev2.ret)
\* the outcome of thread t's call, had it run alone on the memory it
\* started with: the result and the memory left
SoloOutcomes(t) ==
    LET L == th[t]
        m == L.snap
        a == L.args
    IN  CASE L.op = "string_length" ->
               {[ret |-> string_length(a[1], m.str), mem |-> m]}
          [] L.op = "reverse_string" ->
               {[ret |-> 0,
                 mem |-> [m EXCEPT !.str = reverse_string(a[1], m.str)]]}
          [] L.op = "distance" ->
               {[ret |-> distance(PtIdx(t, a[1]), PtIdx(t, a[2]), m.pts),
                 mem |-> m]}
          [] L.op = "translate_point" ->
               {[ret |-> 0,
                 mem |-> [m EXCEPT !.pts = translate_point(PtIdx(t, a[1]),
                                                           a[2], a[3], m.pts)]]}
          [] L.op = "sum_array" ->
               {[ret |-> o.v, mem |-> m] :
                  o \in {o \in sum_array(a[1], a[2], m.arr) :
                           o.st = "returned"}}
          [] L.op = "double_array" ->
               {[ret |-> 0, mem |-> [m EXCEPT !.arr = o.arr]] :
                  o \in {o \in double_array(a[1], a[2], m.arr) :
                           o.st = "returned"}}

\* C8: the library is re-entrant.  When two threads run calls at the same
\* time, each on its own buffers, then under every interleaving of their
\* steps a call reads and writes only cells of its own thread, a thread that
\* has not called finds its memory as it was, and a call that has returned
\* has the result and has left its thread's memory as the same call run
\* alone would have.
C8_Reentrant ==
    \A t \in DOMAIN th :
        /\ touched[t] \subseteq OwnCells(t)
        /\ th[t].pc = "idle" => MemOf(t) = th[t].snap
        /\ th[t].pc = "done" =>
               [ret |-> th[t].ret, mem |-> MemOf(t)] \in SoloOutcomes(t)

\* thread 1 has reversed its three-character text and thread 2 has doubled
\* two elements of its array, each having taken steps while the other's call
\* was in progress
C8_Witness ==
    /\ th # <<>>
    /\ th[1].pc = "done" /\ th[1].op = "reverse_string" /\ th[1].ov
    /\ StrOf(1) # th[1].snap.str
    /\ th[2].pc = "done" /\ th[2].op = "double_array" /\ th[2].ov
    /\ ArrOf(2) # th[2].snap.arr

====
